---- MODULE Spec2Model ----
(***************************************************************************)
(* Model of avr-qa-scaffold: the template loader (loadTemplates,           *)
(* processTemplate), the configuration generator (createConfigFiles and    *)
(* its helpers), the package.json merge (deepMerge) and the entry points   *)
(* setup / init that drive them, with the dependency installation and the  *)
(* package.json update of setupQualitySystem.                              *)
(*                                                                         *)
(* Text (template bodies, file contents) is a sequence of tokens: a        *)
(* literal piece of text or a {{name}} placeholder.  A missing object      *)
(* property (templates[name] === undefined) is the value Undefined, a      *)
(* missing file is the value NoFile.                                       *)
(***************************************************************************)
EXTENDS Integers, Sequences, FiniteSets, TLC

\* ------------------------------------------------------------------ bounds
\* Number of deviations of the initial world from the pristine one (every
\* template present in common, empty project directory): a template file
\* that is missing, or a user file that already exists.
MaxVariation == 1
\* Number of times an entry point is invoked in one behaviour.
MaxRuns == 2
\* Number of I/O operations that fail in one behaviour (SpecFault only).
MaxFaults == 1
\* Number of tokens of a template processTemplate is applied to (SpecTemplate).
MaxTemplateLen == 2
\* Number of registry packages by which the packages package.json lists
\* differ from none and from all (SpecInstall).
MaxListed == 1

\* ------------------------------------------------------------------ text
Lit(s) == [kind |-> "lit", text |-> s]
Ph(name) == [kind |-> "ph", text |-> name]
\* The placeholder written with whitespace inside the braces: {{  name  }}.
PhWs(name) == [kind |-> "phws", text |-> name]

Undefined == << [kind |-> "undefined", text |-> ""] >>
NoFile == << [kind |-> "enoent", text |-> ""] >>
UserContent == << Lit("user") >>

\* Mutant: a missing template is not detected.
IsFalsyNever(content) == FALSE

\* JavaScript truthiness of templates[name]: undefined and '' are falsy.
IsFalsy(content) == content = Undefined \/ content = << >>

\* ------------------------------------------------------------------ registry
ProjectTypeIds == {"node", "react", "next"}

COMMON_DIRECTORIES == << "src", "tests", "tests/integration", "tests/e2e" >>

\* A dependency 'name@range' is written as the parts String.split('@')
\* gives: 'eslint@^8.57.0' is << "eslint", "^8.57.0" >> and the scoped
\* '@commitlint/cli@^19.0.3' is << "", "commitlint/cli", "^19.0.3" >>.
COMMON_DEPENDENCIES ==
  << << "eslint", "^8.57.0" >>,
     << "eslint-plugin-import", "^2.29.1" >>,
     << "eslint-plugin-jest", "^27.9.0" >>,
     << "eslint-plugin-promise", "^6.1.1" >>,
     << "eslint-config-prettier", "^9.1.0" >>,
     << "eslint-plugin-prettier", "^5.1.3" >>,
     << "prettier", "^3.1.1" >>,
     << "husky", "^9.0.11" >>,
     << "lint-staged", "^15.2.2" >>,
     << "", "commitlint/cli", "^19.0.3" >>,
     << "", "commitlint/config-conventional", "^19.0.3" >>,
     << "commitizen", "^4.3.0" >>,
     << "cz-conventional-changelog", "^3.3.0" >>,
     << "jest", "^29.7.0" >> >>

PROJECT_TYPES ==
  [ node  |-> [ id |-> "node",
                dependencies |-> COMMON_DEPENDENCIES \o
                  << << "eslint-config-airbnb-base", "^15.0.0" >> >>,
                directories |-> COMMON_DIRECTORIES \o << "src/utils" >>,
                templates |-> [base |-> "common", specific |-> "node"] ],
    react |-> [ id |-> "react",
                dependencies |-> COMMON_DEPENDENCIES \o
                  << << "eslint-config-airbnb", "^19.0.4" >>,
                     << "eslint-plugin-react", "^7.33.2" >>,
                     << "eslint-plugin-react-hooks", "^4.6.0" >>,
                     << "eslint-plugin-jsx-a11y", "^6.8.0" >>,
                     << "", "testing-library/react", "^14.1.2" >>,
                     << "", "testing-library/jest-dom", "^6.1.5" >>,
                     << "", "testing-library/user-event", "^14.5.1" >> >>,
                directories |-> COMMON_DIRECTORIES \o
                  << "src/components", "src/hooks", "src/assets", "public" >>,
                templates |-> [base |-> "common", specific |-> "react"] ],
    next  |-> [ id |-> "next",
                dependencies |-> COMMON_DEPENDENCIES \o
                  << << "eslint-config-next", "^14.2.0" >>,
                     << "eslint-plugin-react", "^7.33.2" >>,
                     << "eslint-plugin-react-hooks", "^4.6.0" >>,
                     << "eslint-plugin-jsx-a11y", "^6.8.0" >>,
                     << "", "testing-library/react", "^14.1.2" >>,
                     << "", "testing-library/jest-dom", "^6.1.5" >>,
                     << "", "testing-library/user-event", "^14.5.1" >> >>,
                directories |-> COMMON_DIRECTORIES \o
                  << "src/app", "src/components", "src/lib", "public" >>,
                templates |-> [base |-> "common", specific |-> "next"] ] ]

Null == [ id |-> "null", dependencies |-> << >>, directories |-> << >>,
          templates |-> [base |-> "", specific |-> ""] ]

\* Ids that are not project types: one that is no property of PROJECT_TYPES
\* at all, and one that is a property every object inherits from
\* Object.prototype.
ObjectPrototypeKeys == {"constructor"}
UnknownIds == {"invalid"} \cup ObjectPrototypeKeys

\* Reading directories of a value that has no such property gives undefined.
UndefinedDirectories == << "undefined" >>

\* PROJECT_TYPES[id] for an id of ObjectPrototypeKeys: a truthy value without
\* the properties id, directories or templates.
ObjectPrototypeMember ==
  [ id |-> "undefined", dependencies |-> << >>,
    directories |-> UndefinedDirectories,
    templates |-> [base |-> "undefined", specific |-> "undefined"] ]

\* Mutant: only own properties of PROJECT_TYPES are looked up.
getOwnProjectTypeConfig(projectType) ==
  IF projectType \in DOMAIN PROJECT_TYPES THEN PROJECT_TYPES[projectType] ELSE Null

\* `PROJECT_TYPES[projectType] || null`
getProjectTypeConfig(projectType) ==
  IF projectType \in DOMAIN PROJECT_TYPES THEN PROJECT_TYPES[projectType]
  ELSE IF projectType \in ObjectPrototypeKeys THEN ObjectPrototypeMember
  ELSE Null

getProjectDirectories(projectType) ==
  IF getProjectTypeConfig(projectType) # Null
    THEN getProjectTypeConfig(projectType).directories
    ELSE COMMON_DIRECTORIES

\* `config ? config.dependencies : COMMON_DEPENDENCIES`
getProjectDependencies(projectType) ==
  IF getProjectTypeConfig(projectType) # Null
    THEN getProjectTypeConfig(projectType).dependencies
    ELSE COMMON_DEPENDENCIES

\* ------------------------------------------------------------------ artifacts
STANDARD_CONFIG_FILES ==
  << [filename |-> ".eslintrc.json",       templateName |-> "eslintrc.json"],
     [filename |-> ".prettierrc.json",     templateName |-> "prettierrc.json"],
     [filename |-> "jest.config.js",       templateName |-> "jest.config.js"],
     [filename |-> ".lintstagedrc.json",   templateName |-> "lintstagedrc.json"],
     [filename |-> "commitlint.config.js", templateName |-> "commitlint.config.js"],
     [filename |-> ".gitignore",           templateName |-> "gitignore"] >>

\* path.join('.husky', file) is tabulated in filePath.
hooks ==
  << [file |-> "pre-commit", filePath |-> ".husky/pre-commit",
      template |-> "husky/pre-commit"],
     [file |-> "commit-msg", filePath |-> ".husky/commit-msg",
      template |-> "husky/commit-msg"],
     [file |-> "prepare-commit-msg", filePath |-> ".husky/prepare-commit-msg",
      template |-> "husky/prepare-commit-msg"],
     [file |-> "pre-push", filePath |-> ".husky/pre-push",
      template |-> "husky/pre-push"] >>

\* `tests/${projectType}/sample.test.js` is tabulated per project type;
\* dir is dirname(path).
sampleFiles(projectType) ==
  << [path |-> "tests/unit/sample.test.js", dir |-> "tests/unit",
      template |-> CASE projectType = "node"  -> "tests/node/sample.test.js"
                     [] projectType = "react" -> "tests/react/sample.test.js"
                     [] OTHER                 -> "tests/next/sample.test.js",
      fallback |-> "tests/sample.test.js"],
     [path |-> "tests/integration/sample.integration.test.js",
      dir |-> "tests/integration",
      template |-> CASE projectType = "node"  -> "tests/node/sample.integration.test.js"
                     [] projectType = "react" -> "tests/react/sample.integration.test.js"
                     [] OTHER                 -> "tests/next/sample.integration.test.js",
      fallback |-> "tests/sample.integration.test.js"] >>

Range(s) == { s[j] : j \in DOMAIN s }

ConfigPaths == { e.filename : e \in Range(STANDARD_CONFIG_FILES) }
HookPaths == { h.filePath : h \in Range(hooks) }
SamplePaths == { s.path : s \in Range(sampleFiles("node")) }
Paths == ConfigPaths \cup HookPaths \cup SamplePaths

\* Template keys an artifact of a run for projectType can be built from.
KeysOf(projectType) ==
  { e.templateName : e \in Range(STANDARD_CONFIG_FILES) }
    \cup { h.template : h \in Range(hooks) }
    \cup { s.template : s \in Range(sampleFiles(projectType)) }
    \cup { s.fallback : s \in Range(sampleFiles(projectType)) }

\* Template files the package ships in namespace directory ns that no output
\* of createConfigFiles is built from.
ShippedUnmapped(ns) ==
  CASE ns = "common" -> {"__mocks__/fileMock.js"}
    [] ns = "react"  -> {"jest.setup.js"}
    [] ns = "next"   -> {"jest.setup.js", "next.config.js"}
    [] OTHER         -> {}

UnmappedKeys == UNION { ShippedUnmapped(ns) : ns \in {"common"} \cup ProjectTypeIds }

TemplateKeys == UNION { KeysOf(t) : t \in ProjectTypeIds } \cup UnmappedKeys

\* mkdir(dir, {recursive: true}) creates dir and its missing parents.
WithParents(dir) ==
  {dir} \cup
  CASE dir = "tests/integration" -> {"tests"}
    [] dir = "tests/e2e"         -> {"tests"}
    [] dir = "tests/unit"        -> {"tests"}
    [] dir = "src/utils"         -> {"src"}
    [] dir = "src/components"    -> {"src"}
    [] dir = "src/hooks"         -> {"src"}
    [] dir = "src/assets"        -> {"src"}
    [] dir = "src/app"           -> {"src"}
    [] dir = "src/lib"           -> {"src"}
    [] OTHER                     -> {}

\* ------------------------------------------------------------------ templates
\* The body of the template file `key` of namespace directory `ns`.  Bodies of
\* different namespaces differ; each holds a placeholder that is a run
\* variable and one that is not.
TemplateBody(ns, key) == << Lit(ns), Lit(key), Ph("projectType"), Ph("author") >>

EmptyTemplates == [k \in TemplateKeys |-> Undefined]

\* Mutant: the regular expression allows no whitespace inside the braces.
matchesNoWhitespace(token, key) == token.kind = "ph" /\ token.text = key

\* The regular expression /\{\{\s*key\s*\}\}/ matches the token.
matches(token, key) == token.kind \in {"ph", "phws"} /\ token.text = key

\* Mutant: the replacement string is inserted without interpreting $.
GetSubstitutionVerbatim(matched, value) == value

\* String.prototype.replace with a string as replacement: in the replacement
\* $$ stands for one $ and $& for the matched text; the rest is inserted as
\* it is.
RECURSIVE GetSubstitution(_, _)
GetSubstitution(matched, value) ==
  IF value = << >> THEN << >>
  ELSE (CASE Head(value) = Lit("$$") -> << Lit("$") >>
          [] Head(value) = Lit("$&") -> << matched >>
          [] OTHER                   -> << Head(value) >>)
       \o GetSubstitution(matched, Tail(value))

\* content from token j on, with every match of key replaced.
RECURSIVE replaceFrom(_, _, _, _)
replaceFrom(content, key, value, j) ==
  IF j > Len(content) THEN << >>
  ELSE (IF matches(content[j], key)
          THEN GetSubstitution(content[j], value) ELSE << content[j] >>)
       \o replaceFrom(content, key, value, j + 1)

\* result = result.replace(/\{\{\s*key\s*\}\}/g, value)
replaceAll(content, key, value) == replaceFrom(content, key, value, 1)

RECURSIVE processTemplateFrom(_, _, _)
processTemplateFrom(result, variables, n) ==
  IF n > Len(variables) THEN result
  ELSE processTemplateFrom(
         replaceAll(result, variables[n].key, variables[n].value), variables, n + 1)

processTemplate(template, variables) == processTemplateFrom(template, variables, 1)

\* Object.entries(templateVariables) of createConfigFiles, in insertion order.
templateVariables(projectType) ==
  << [key |-> "projectName", value |-> << Lit("my-project") >>],
     [key |-> "projectType", value |-> << Lit(getProjectTypeConfig(projectType).id) >>],
     [key |-> "year",        value |-> << Lit("2025") >>],
     [key |-> "nodeVersion", value |-> << Lit("v20.0.0") >>] >>

\* Mutant: a key the target already holds is kept (first write wins).
ObjectAssignKeepsTarget(target, source) ==
  [k \in TemplateKeys |-> IF target[k] # Undefined THEN target[k] ELSE source[k]]

\* Object.assign(target, source): every own key of source overwrites target's.
ObjectAssign(target, source) ==
  [k \in TemplateKeys |-> IF source[k] # Undefined THEN source[k] ELSE target[k]]

\* The files of a directory that are read before the files of its
\* subdirectories husky and tests.
ReadFirst == { e.templateName : e \in Range(STANDARD_CONFIG_FILES) }

\* The local object `templates` of loadTemplateFiles at the moment a file of
\* a subdirectory cannot be read.
readBeforeFailure(ns) ==
  [k \in TemplateKeys |-> IF k \in ReadFirst THEN ns[k] ELSE Undefined]

\* Mutant: a file that cannot be read is left out and the files read so
\* far are returned.
loadTemplateFilesLenient(ns, state) ==
  IF state = "ok" THEN [threw |-> FALSE, files |-> ns]
  ELSE IF state = "partial" THEN [threw |-> FALSE, files |-> readBeforeFailure(ns)]
  ELSE [threw |-> TRUE, files |-> EmptyTemplates]

\* loadTemplateFiles(directory): the directory's files keyed by relative
\* name, or an exception when the directory ("missing", "unreadable") or one
\* of its files ("partial") cannot be read; files is the local object
\* `templates`, which is lost when the exception is thrown.
loadTemplateFiles(ns, state) ==
  IF state = "ok" THEN [threw |-> FALSE, files |-> ns]
  ELSE IF state = "partial" THEN [threw |-> TRUE, files |-> readBeforeFailure(ns)]
  ELSE [threw |-> TRUE, files |-> EmptyTemplates]

\* loadTemplates(projectType) on template directories cNs (common) and sNs
\* (specific) in states cState, sState ("ok", "missing" or "unreadable").
\* Mutant: a failure to load the specific directory is thrown on.
rethrowSpecificError(threw) == threw

\* The catch block around the load of the specific directory: the error is
\* swallowed (logged when verbose), never thrown on.
catchSpecificError(threw) == FALSE

\* The error loadTemplates throws, "" when it resolves.
loadTemplatesError(projectType, cState, sState) ==
  IF getProjectTypeConfig(projectType) = Null THEN "Invalid project type"
  ELSE IF getProjectTypeConfig(projectType) = ObjectPrototypeMember
    THEN "TypeError"   \* templateConfig is undefined; templateConfig.base
  ELSE IF cState = "missing" THEN "Base template directory not found"
  ELSE IF loadTemplateFiles(EmptyTemplates, cState).threw
    THEN "Failed to load templates"
  ELSE IF catchSpecificError(loadTemplateFiles(EmptyTemplates, sState).threw)
    THEN "Failed to load templates"
  ELSE ""

loadTemplates(projectType, cNs, cState, sNs, sState) ==
  LET baseFiles == loadTemplateFiles(cNs, cState)
      afterBase == ObjectAssign(EmptyTemplates, baseFiles.files)
      specificFiles == loadTemplateFiles(sNs, sState)
      error == loadTemplatesError(projectType, cState, sState)
  IN IF error # ""
       THEN [rejected |-> TRUE, error |-> error, templates |-> EmptyTemplates]
     ELSE IF specificFiles.threw
       THEN \* Object.assign(templatesResult, specificFiles) is not reached
            [rejected |-> FALSE, error |-> "", templates |-> afterBase]
     ELSE [rejected |-> FALSE, error |-> "",
           templates |-> ObjectAssign(afterBase, specificFiles.files)]

\* ------------------------------------------------------------------ package.json
\* A JSON value: a string, null, an array of strings or an object (a function
\* from its keys to JSON values).
NoFields == [k \in {} |-> << >>]
Str(t) == [kind |-> "string", text |-> t, items |-> << >>, fields |-> NoFields]
JsonNull == [kind |-> "null", text |-> "", items |-> << >>, fields |-> NoFields]
Arr(items) == [kind |-> "array", text |-> "", items |-> items, fields |-> NoFields]
Obj(fields) == [kind |-> "object", text |-> "", items |-> << >>, fields |-> fields]

\* Mutant: an array counts as an object to merge into.
isPlainObjectOrArray(value) == value.kind \in {"object", "array"}

\* `value && typeof value === 'object' && !Array.isArray(value)`
isPlainObject(value) == value.kind = "object"

\* Mutant: arrays are concatenated instead of replaced.
RECURSIVE deepMergeConcat(_, _)
deepMergeConcat(target, source) ==
  Obj([key \in DOMAIN target.fields \cup DOMAIN source.fields |->
         IF key \notin DOMAIN source.fields
           THEN target.fields[key]
         ELSE IF isPlainObject(source.fields[key])
           THEN IF key \in DOMAIN target.fields /\ isPlainObject(target.fields[key])
                  THEN deepMergeConcat(target.fields[key], source.fields[key])
                  ELSE Obj(source.fields[key].fields)
         ELSE IF /\ source.fields[key].kind = "array"
                 /\ key \in DOMAIN target.fields
                 /\ target.fields[key].kind = "array"
           THEN Arr(target.fields[key].items \o source.fields[key].items)
         ELSE source.fields[key]])

\* Mutant: an object value replaces the existing object instead of merging.
deepMergeShallow(target, source) ==
  Obj([key \in DOMAIN target.fields \cup DOMAIN source.fields |->
         IF key \in DOMAIN source.fields
           THEN source.fields[key] ELSE target.fields[key]])

RECURSIVE deepMerge(_, _)
deepMerge(target, source) ==
  Obj([key \in DOMAIN target.fields \cup DOMAIN source.fields |->
         IF key \notin DOMAIN source.fields
           THEN target.fields[key]
         ELSE IF isPlainObject(source.fields[key])
           THEN IF key \in DOMAIN target.fields /\ isPlainObject(target.fields[key])
                  THEN deepMerge(target.fields[key], source.fields[key])
                  ELSE Obj(source.fields[key].fields)
         ELSE source.fields[key]])

\* The objects over a subset of keys with values in vals.
ObjectsOver(keys, vals) ==
  { Obj(f) : f \in UNION { [ks -> vals] : ks \in SUBSET keys } }

JsonLeaves == { Str("x"), Str("y"), Arr(<< "a" >>), Arr(<< "b" >>), JsonNull }
InnerObjects ==
  ObjectsOver({"start", "lint"}, { Str("x"), Str("y"), Arr(<< "a" >>) })
\* Documents two levels deep: package.json with scripts and keywords.
ShallowDocs == ObjectsOver({"scripts", "keywords"}, JsonLeaves \cup InnerObjects)
\* Documents three levels deep: the commitizen configuration.
DeepDocs ==
  ObjectsOver({"config"},
    { Str("x") } \cup
    ObjectsOver({"commitizen"},
      { Arr(<< "a" >>) } \cup ObjectsOver({"path", "types"}, { Str("x"), Str("y") })))
JsonDocs == ShallowDocs \cup DeepDocs

EmptyDoc == Obj(NoFields)

\* What reading package.json gives when there is no such file, and when its
\* content is not JSON.
MissingPackageJson ==
  [kind |-> "enoent", text |-> "", items |-> << >>, fields |-> NoFields]
InvalidPackageJson ==
  [kind |-> "invalid", text |-> "", items |-> << >>, fields |-> NoFields]

\* Mutant: content that is no JSON is read as the empty object.
JSONparseLenient(content) ==
  IF content.kind = "invalid"
    THEN [threw |-> FALSE, value |-> EmptyDoc]
    ELSE [threw |-> content.kind = "enoent", value |-> content]

\* `JSON.parse(await fs.readFile('package.json', 'utf8'))`: throws when the
\* file cannot be read and when its content is no JSON.
JSONparse(content) ==
  [threw |-> content.kind \in {"enoent", "invalid"}, value |-> content]

\* ------------------------------------------------------------------ dependencies
\* The names npm gives the scoped packages of the registry.
ScopedPackageNames ==
  ("commitlint/cli" :> "@commitlint/cli") @@
  ("commitlint/config-conventional" :> "@commitlint/config-conventional") @@
  ("testing-library/react" :> "@testing-library/react") @@
  ("testing-library/jest-dom" :> "@testing-library/jest-dom") @@
  ("testing-library/user-event" :> "@testing-library/user-event")

\* The name under which `npm install --save-dev <dependency>` records the
\* dependency in package.json, and its version range.
npmPackageName(dependency) ==
  IF dependency[1] # "" THEN dependency[1] ELSE ScopedPackageNames[dependency[2]]
npmRange(dependency) == dependency[Len(dependency)]

\* Every dependency of the registry.
AllDependencies ==
  UNION { Range(PROJECT_TYPES[pt].dependencies) : pt \in ProjectTypeIds }

\* JavaScript truthiness of a JSON value.
IsTruthy(value) ==
  ~(value.kind = "null" \/ (value.kind = "string" /\ value.text = ""))

\* `packageJson[section] && packageJson[section][name]`
hasDependency(doc, section, name) ==
  /\ section \in DOMAIN doc.fields
  /\ doc.fields[section].kind = "object"
  /\ name \in DOMAIN doc.fields[section].fields
  /\ IsTruthy(doc.fields[section].fields[name])

\* `packageName.split('@')[0] || packageName`: the text before the first
\* '@', the whole name when that text is empty.
nameWithoutVersion(packageName) ==
  LET first == IF packageName \in Range(ScopedPackageNames) THEN "" ELSE packageName
  IN IF first = "" THEN packageName ELSE first

\* `dependency.split('@')[0]`
splitAtFirst(dependency) == dependency[1]

\* isPackageInstalled(packageName) with package.json holding content: a
\* failure to read or parse is caught and answered false.
isPackageInstalled(content, packageName) ==
  /\ ~JSONparse(content).threw
  /\ \/ hasDependency(content, "dependencies", nameWithoutVersion(packageName))
     \/ hasDependency(content, "devDependencies", nameWithoutVersion(packageName))

\* packagesToInstall of installDependencies({ projectType }).
packagesToInstall(content, type) ==
  SelectSeq(getProjectDependencies(type),
            LAMBDA dependency : ~isPackageInstalled(content, splitAtFirst(dependency)))

\* The commands installDependencies({ projectType }) runs.
installCommands(content, type) ==
  IF packagesToInstall(content, type) = << >> THEN << >>
  ELSE << [command |-> "npm install --save-dev",
           packages |-> packagesToInstall(content, type)] >>

\* package.json after a successful `npm install --save-dev` of packages.
npmInstalled(content, packages) ==
  IF content.kind # "object" \/ packages = << >> THEN content
  ELSE deepMerge(content,
         Obj("devDependencies" :>
               Obj([name \in { npmPackageName(d) : d \in Range(packages) } |->
                      Str(npmRange(CHOOSE d \in Range(packages) :
                                     npmPackageName(d) = name))])))

\* The scripts and the Commitizen configuration addScriptsToPackageJson
\* merges into package.json.
qualityScripts ==
  ("lint" :> Str("eslint --ignore-path .gitignore --ext .js .")) @@
  ("lint:fix" :> Str("eslint --ignore-path .gitignore --ext .js . --fix")) @@
  ("format" :> Str("prettier --ignore-path .gitignore --write")) @@
  ("commit" :> Str("cz")) @@
  ("prepare" :> Str("husky")) @@
  ("test" :> Str("jest")) @@
  ("test:watch" :> Str("jest --watch")) @@
  ("test:unit" :> Str("jest src")) @@
  ("test:unit:watch" :> Str("jest src --watch")) @@
  ("test:unit:coverage" :> Str("jest src --coverage")) @@
  ("test:integration" :> Str("jest tests/integration")) @@
  ("test:integration:watch" :> Str("jest tests/integration --watch")) @@
  ("test:e2e" :> Str("jest tests/e2e")) @@
  ("test:e2e:watch" :> Str("jest tests/e2e --watch")) @@
  ("test:ci" :> Str("jest --ci --runInBand --forceExit --coverage src tests/integration")) @@
  ("test:coverage" :> Str("jest --coverage"))

\* `const values = { scripts, ...config }`
qualityValues ==
  Obj(("scripts" :> Obj(qualityScripts)) @@
      ("config" :> Obj("commitizen" :>
                         Obj("path" :> Str("./node_modules/cz-conventional-changelog")))))

\* The pairs of packages checkVersionCompatibility knows to conflict.
COMPATIBILITY_ISSUES ==
  << [package1 |-> "eslint",   package2 |-> "eslint-config-prettier"],
     [package1 |-> "prettier", package2 |-> "eslint-plugin-prettier"],
     [package1 |-> "husky",    package2 |-> "lint-staged"] >>

\* updatePackage(package2.name) for the issues from the i-th on: `detected`
\* are the issues the installed versions match, `update` is the answer to
\* the prompt.
RECURSIVE updateCommands(_, _, _)
updateCommands(i, detected, update) ==
  IF i > Len(COMPATIBILITY_ISSUES) THEN << >>
  ELSE (IF i \in detected /\ update
          THEN << [command |-> "npm install --save-dev",
                   packages |-> << << COMPATIBILITY_ISSUES[i].package2, "latest" >> >>] >>
          ELSE << >>)
       \o updateCommands(i + 1, detected, update)

\* The commands checkVersionCompatibility runs.
checkVersionCompatibility(detected, update) == updateCommands(1, detected, update)

\* addDevDependencies(dependencies)
addDevDependencies(dependencies) ==
  IF dependencies = << >> THEN << >>
  ELSE << [command |-> "npm install --save-dev", packages |-> dependencies] >>

\* The commands cmds as run, with their exit status.
Ran(cmds, ok) ==
  [j \in DOMAIN cmds |->
     [command |-> cmds[j].command, packages |-> cmds[j].packages, ok |-> ok]]

\* The packages the commands cmds name, in order.
RECURSIVE packagesOf(_)
packagesOf(cmds) ==
  IF cmds = << >> THEN << >> ELSE Head(cmds).packages \o packagesOf(Tail(cmds))

\* `await installDependencies({ verbose })` passes no projectType, and
\* installDependencies defaults it: `projectType = 'node'`.
defaultProjectType == "node"

\* Mutant: a step of setupQualitySystem that throws does not stop the steps
\* after it.
stepsAfterConfigAll(failing) == << "scripts", "husky", "tests" >>

\* The steps of setupQualitySystem after createConfigFiles that are started
\* when step `failing` throws ("none": no step throws).
stepsAfterConfig(failing) ==
  IF failing = "scripts" THEN << "scripts" >>
  ELSE IF failing = "husky" THEN << "scripts", "husky" >>
  ELSE << "scripts", "husky", "tests" >>

\* Steps 1 and 2 of setupQualitySystem on package.json holding content:
\* the steps started, the commands run, package.json afterwards and the
\* step that threw.  fault = "install": npm install fails; "prompt": the
\* prompt of the version check rejects; "update": the update of a package
\* fails, which updatePackage catches.
stepsBeforeConfig(content, skip, detected, update, fault) ==
  LET install == IF skip THEN << >> ELSE installCommands(content, defaultProjectType)
      afterInstall == IF fault = "install" THEN content
                      ELSE npmInstalled(content, packagesOf(install))
      checked == fault # "install"
      updates == IF checked /\ fault # "prompt"
                   THEN checkVersionCompatibility(detected, update) ELSE << >>
      failed == fault \in {"install", "prompt"}
  IN [ steps |-> (IF skip THEN << >> ELSE << "install" >>)
                 \o (IF checked THEN << "version" >> ELSE << >>)
                 \o (IF failed THEN << >> ELSE << "config" >>),
       commands |-> Ran(install, fault # "install") \o Ran(updates, fault # "update"),
       packageJson |-> IF fault = "update" THEN afterInstall
                       ELSE npmInstalled(afterInstall, packagesOf(updates)),
       failedStep |-> IF fault = "install" THEN "install"
                      ELSE IF fault = "prompt" THEN "version" ELSE "none" ]

\* package.json of a project that has every dependency of the registry
\* installed and the quality scripts added.
InstalledPackageJson ==
  deepMerge(npmInstalled(EmptyDoc,
                         PROJECT_TYPES["node"].dependencies
                           \o PROJECT_TYPES["react"].dependencies
                           \o PROJECT_TYPES["next"].dependencies),
            qualityValues)

\* package.json that lists the packages of names as devDependencies.
WithDevDependencies(names) ==
  Obj("devDependencies" :> Obj([name \in names |-> Str("^1.0.0")]))

\* ------------------------------------------------------------------ state
VARIABLES
  template,           \* the template processTemplate is called with
  variables,          \* its variables, as Object.entries lists them
  processed,          \* what processTemplate returned
  packageJson,        \* the parsed content of package.json
  values,             \* the values object modifyPackageJson is called with
  packageJsonBefore,  \* packageJson before the last direct call that read it
  modified,           \* modifyPackageJson has run
  commands,           \* the npm commands the current call ran, in order
  steps,              \* the steps of setupQualitySystem started, in order
  commonNs,      \* templates/common: key -> body, Undefined where no file
  specificNs,    \* templates/<projectType>: key -> body
  commonState,   \* "ok" | "missing" | "unreadable" | "partial"
  specificState,
  templates,     \* the map loadTemplates returned (options.templates)
  loadResult,    \* "none" | "resolved" | "rejected"
  projectType,   \* options.projectType
  force,         \* options.force of the current call
  verbose,       \* options.verbose of the current call
  skipInstall,   \* options.skipInstall of the current call
  entry,         \* entry point of the current call
  fsContent,     \* working directory: path -> content, NoFile where absent
  fsMode,        \* path -> permission bits
  dirs,          \* directories that exist in the working directory
  pc,            \* position of the current call
  idx,           \* loop index at pc
  result,        \* outcome of createConfigFiles: "pending" | "true" | "rejected"
  outcome,       \* what setupQualitySystem and setup returned and logged
  log,           \* I/O and log events of the current call, in order
  before,        \* fsContent when the current call started
  beforeMode,    \* fsMode when the current call started
  reached,       \* paths that existed when their loop iteration started
  prev,          \* summary of the previous call
  runs,          \* calls so far
  faults         \* I/O failures so far

loadVars == << commonNs, specificNs, commonState, specificState >>
pkgVars == << packageJson, values, packageJsonBefore, modified, commands, steps >>
tplVars == << template, variables, processed >>
fsVars == << fsContent, fsMode, dirs >>
callVars == << templates, loadResult, projectType, force, verbose, skipInstall,
               entry, before, beforeMode, prev, runs >>
vars == << template, variables, processed, packageJson, values, packageJsonBefore,
           modified, commands, steps, skipInstall, commonNs, specificNs, commonState, specificState, templates,
           loadResult, projectType, force, verbose, entry, fsContent, fsMode,
           dirs, pc, idx, result, outcome, log, before, beforeMode, reached,
           prev, runs, faults >>

\* Mutant: the hook is chmod'ed to 0o644.
NonExecutableMode == "rw-r--r--"

ExecutableMode == "rwxr-xr-x"   \* 0o755
DefaultFileMode == "rw-r--r--"  \* a file created by fs.writeFile

\* An event of the current call, tagged with the step (pc) that produced it.
Ev(op, path, ok) == [op |-> op, path |-> path, ok |-> ok, phase |-> pc]

\* Mutant: a skip is reported whatever the verbose option.
reportSkipAlways(path) == << Ev("logInfo", path, TRUE) >>

\* `if (verbose) { logInfo(`... already exists, skipping.`) }`: the events
\* that report the skip of path to the user.
reportSkip(path) == IF verbose THEN << Ev("logInfo", path, TRUE) >> ELSE << >>

\* `fs.mkdir(dirPath, { recursive: true })` where dirPath is absent or is a
\* directory (isDirectory): with recursive set the promise resolves in both
\* cases; EEXIST is raised only for a path that exists and is no directory.
mkdirRecursive(isDirectory) == "resolved"

\* createDirIfNotExists(dirPath) given how fs.mkdir settled: true when it
\* resolved, false when it rejected with EEXIST.
createDirIfNotExists(settled) == settled = "resolved"

\* `if (created) logSuccess(`Created directory ...`) else if (verbose)
\* logInfo(`Directory ... already exists.`)`
reportCreated(dir, created) ==
  IF created THEN << Ev("created", dir, TRUE) >>
  ELSE IF verbose THEN << Ev("logInfo", dir, TRUE) >> ELSE << >>

\* Mutant: the existence check always answers "absent".
fileExistsNever(filePath) == FALSE

\* fileExists(filePath): fs.access succeeds.
fileExists(filePath) == fsContent[filePath] # NoFile

\* Mutant: the force flag is read inverted.
skipExistingInverted(exists, isForce) == exists /\ isForce

\* Mutant: the force flag is ignored.
skipExistingIgnoresForce(exists, isForce) == exists

\* `exists && !force`
skipExisting(exists, isForce) == exists /\ ~isForce

NoPrev == [ran |-> FALSE, force |-> FALSE, result |-> "pending"]

\* Neither setupQualitySystem nor setup has returned in the current call.
NoOutcome == [setupQualitySystem |-> "pending", setup |-> "pending",
              logSuccess |-> FALSE, failedStep |-> "none"]

\* The subsets of S with at most n elements.
RECURSIVE SubsetsUpTo(_, _)
SubsetsUpTo(S, n) ==
  IF n = 0 THEN {{}}
  ELSE LET smaller == SubsetsUpTo(S, n - 1)
       IN smaller \cup { s \cup {x} : s \in smaller, x \in S }

\* A deviation of the initial world from the pristine one.
Deviations(pt) ==
  ({"missing", "overriding"} \X KeysOf(pt)) \cup ({"existing"} \X Paths)

\* The template directories and the working directory at the start: a
\* project type of types, template directories in states of dirStates and
\* one of the sets of deviations devSets holds for the type.  A directory
\* that is missing holds no file.
InitWorld(types, dirStates, devSets) ==
  /\ projectType \in types
  /\ commonState \in dirStates
  /\ specificState \in dirStates
  /\ \E dev \in devSets[projectType] :
       /\ commonNs = [k \in TemplateKeys |->
                        IF /\ commonState # "missing"
                           /\ k \in KeysOf(projectType) \cup ShippedUnmapped("common")
                           /\ << "missing", k >> \notin dev
                          THEN TemplateBody("common", k) ELSE Undefined]
       /\ specificNs = [k \in TemplateKeys |->
                          IF /\ specificState # "missing"
                             /\ \/ << "overriding", k >> \in dev
                                \/ k \in ShippedUnmapped(projectType)
                            THEN TemplateBody(projectType, k) ELSE Undefined]
       /\ fsContent = [p \in Paths |->
                         IF << "existing", p >> \in dev THEN UserContent ELSE NoFile]
  /\ templates = EmptyTemplates
  /\ loadResult = "none"
  /\ force = FALSE
  /\ verbose = FALSE
  /\ skipInstall = FALSE
  /\ entry = "none"
  /\ fsMode = [p \in Paths |-> DefaultFileMode]
  /\ dirs = {}
  /\ pc = "idle"
  /\ idx = 0
  /\ result = "pending"
  /\ outcome = NoOutcome
  /\ log = << >>
  /\ before = fsContent
  /\ beforeMode = fsMode
  /\ reached = {}
  /\ prev = NoPrev
  /\ runs = 0
  /\ faults = 0

\* A project type of types and at most maxDev deviations.
InitProject(types, maxDev) ==
  InitWorld(types, {"ok"}, [pt \in types |-> SubsetsUpTo(Deviations(pt), maxDev)])

\* package.json at the start and the values object of the behaviour.
InitPackageJson(docs, valueObjects) ==
  /\ packageJson \in docs
  /\ values \in valueObjects
  /\ packageJsonBefore = EmptyDoc
  /\ modified = FALSE
  /\ commands = << >>
  /\ steps = << >>

\* processTemplate has not been called.
NotProcessed == << [kind |-> "pending", text |-> ""] >>

\* The arguments of the call of processTemplate the behaviour makes.
InitTemplate(templateSet, variablesSet) ==
  /\ template \in templateSet
  /\ variables \in variablesSet
  /\ processed = NotProcessed

Init ==
  /\ InitProject(ProjectTypeIds, MaxVariation)
  /\ InitTemplate({<< >>}, {<< >>})
  /\ InitPackageJson({InstalledPackageJson}, {EmptyDoc})

\* ------------------------------------------------------------------ calls
\* A call that runs no step of setupQualitySystem before createConfigFiles.
NoSetup ==
  [steps |-> << >>, commands |-> << >>, packageJson |-> packageJson,
   failedStep |-> "none"]

\* The start of a call of createConfigFiles(options) made through entry
\* point e with options.force = f, options.skipInstall = s and
\* options.templates freshly loaded; start is what ran before it.
Begin(e, f, s, start) ==
  LET loaded == loadTemplates(projectType, commonNs, commonState,
                              specificNs, specificState)
  IN /\ pc = "idle"
     /\ runs < MaxRuns
     /\ ~loaded.rejected
     /\ templates' = loaded.templates
     /\ loadResult' = "resolved"
     /\ entry' = e
     /\ force' = f
     /\ skipInstall' = s
     /\ verbose' \in BOOLEAN
     /\ steps' = start.steps
     /\ commands' = start.commands
     /\ packageJson' = start.packageJson
     /\ outcome' = [NoOutcome EXCEPT !.failedStep = start.failedStep]
     /\ prev' = [ran |-> runs > 0, force |-> force, result |-> result]
     /\ runs' = runs + 1
     /\ before' = fsContent
     /\ beforeMode' = fsMode
     /\ reached' = {}
     /\ log' = << >>
     /\ result' = "pending"
     /\ pc' = IF start.failedStep = "none" THEN "config" ELSE "rest"
     /\ idx' = 1
     /\ UNCHANGED << loadVars, tplVars, values, modified, packageJsonBefore,
                     projectType, fsContent, fsMode >>

\* loadTemplates(projectType) called by itself: the directories it reads
\* are logged, and what it returns or throws is kept in templates and
\* loadResult.
loadTemplatesCall ==
  LET loaded == loadTemplates(projectType, commonNs, commonState,
                              specificNs, specificState)
      accessed == loaded.error \notin {"Invalid project type", "TypeError"}
      listed == accessed /\ commonState # "missing"
  IN /\ pc = "idle"
     /\ loadResult = "none"
     /\ loadResult' = IF loaded.rejected THEN loaded.error ELSE "resolved"
     /\ templates' = loaded.templates
     /\ log' = (IF accessed
                  THEN << Ev("access", "common", commonState # "missing") >>
                  ELSE << >>)
            \o (IF listed
                  THEN << Ev("access", "specific", specificState # "missing"),
                          Ev("readdir", "common", commonState \in {"ok", "partial"}) >>
                  ELSE << >>)
            \o (IF listed /\ commonState = "partial"
                  THEN << Ev("readFile", "common", FALSE) >>
                  ELSE << >>)
            \o (IF listed /\ commonState = "ok"
                  THEN << Ev("readdir", "specific", specificState \in {"ok", "partial"}) >>
                  ELSE << >>)
            \o (IF listed /\ commonState = "ok" /\ specificState = "partial"
                  THEN << Ev("readFile", "specific", FALSE) >>
                  ELSE << >>)
     /\ UNCHANGED << loadVars, pkgVars, tplVars, fsVars, projectType, force,
                     verbose, skipInstall, entry, before, beforeMode, prev, runs, pc, idx,
                     result, outcome, reached, faults >>

\* The exception createConfigFiles throws before its first step, << >> when
\* it throws none: `if (!templates)`, then `if (!projectConfig)`.
thrownUpFront(provided) ==
  IF ~provided THEN << Ev("throw", "No templates provided", TRUE) >>
  ELSE IF getProjectTypeConfig(projectType) = Null
    THEN << Ev("throw", "Invalid project type", TRUE) >>
  ELSE << >>

\* createConfigFiles(options) called directly with options.force = f and
\* with options.templates the entries of the common directory (provided) or
\* undefined, whatever options.projectType is.
createConfigFilesGiven(provided, f) ==
  /\ pc = "idle"
  /\ runs < MaxRuns
  /\ loadResult # "none"
  /\ templates' = IF provided THEN ObjectAssign(EmptyTemplates, commonNs)
                               ELSE EmptyTemplates
  /\ entry' = "createConfigFiles"
  /\ force' = f
  /\ verbose' \in BOOLEAN
  /\ outcome' = NoOutcome
  /\ prev' = [ran |-> runs > 0, force |-> force, result |-> result]
  /\ runs' = runs + 1
  /\ before' = fsContent
  /\ beforeMode' = fsMode
  /\ reached' = {}
  /\ log' = thrownUpFront(provided)
  /\ result' = IF thrownUpFront(provided) = << >> THEN "pending" ELSE "rejected"
  /\ pc' = IF thrownUpFront(provided) = << >> THEN "config" ELSE "idle"
  /\ idx' = 1
  /\ UNCHANGED << loadVars, pkgVars, tplVars, fsVars, projectType, loadResult,
                  skipInstall, faults >>

\* createConfigFiles(options) called directly.
createConfigFiles(f) ==
  Begin("createConfigFiles", f, FALSE, NoSetup) /\ UNCHANGED << dirs, faults >>

\* setup(options) with options.force = f and options.skipInstall = skip:
\* loads the templates and runs setupQualitySystem, whose steps 1 and 2 run
\* here.  `detected`, `update` and `fault` are what these steps meet: the
\* compatibility issues of the installed versions, the answer to the
\* prompt, and the failure.
setupWith(f, skip, detected, update, fault) ==
  /\ ~JSONparse(packageJson).threw
  /\ fault = "install" => ~skip /\ installCommands(packageJson, defaultProjectType) # << >>
  /\ fault = "prompt" => detected # {}
  /\ fault = "update" => detected # {} /\ update
  /\ Begin("setup", f, skip,
           stepsBeforeConfig(packageJson, skip, detected, update, fault))
  /\ UNCHANGED dirs

\* setup(options) where the installed versions are compatible and npm works.
setup(f) == setupWith(f, FALSE, {}, TRUE, "none") /\ UNCHANGED faults

\* `force: true, // Always override in new projects`
initForce == TRUE

\* `skipInstall: false, // Always install dependencies for new projects`
initSkipInstall == FALSE

\* init(options): creates the declared directories, then calls setup.
init ==
  /\ Begin("init", initForce, initSkipInstall,
           stepsBeforeConfig(packageJson, initSkipInstall, {}, TRUE, "none"))
  /\ dirs' = dirs \cup
       UNION { WithParents(d) : d \in Range(getProjectTypeConfig(projectType).directories) }
  /\ UNCHANGED faults

\* What follows createConfigFiles in setupQualitySystem, in setup and in
\* init.  The steps 4 to 6 (package.json scripts, Husky, test directories)
\* write none of the generated files; they run only when no earlier step
\* threw, and fault = "step" makes one of them throw.  The catch block of
\* setupQualitySystem turns any exception into the return value false.
\* setup awaits setupQualitySystem, drops what it returned, logs its success
\* message and returns true; init then adds the dependencies of the
\* project type.
setupRest(fault) ==
  /\ pc = "rest"
  /\ \E failing \in (IF fault = "step" THEN {"scripts", "husky"} ELSE {"none"}) :
       LET earlier == result = "rejected" \/ outcome.failedStep # "none"
           failed == IF outcome.failedStep # "none" THEN outcome.failedStep
                     ELSE IF result = "rejected" THEN "config" ELSE failing
           scriptsAdded == ~earlier /\ failing # "scripts"
           afterScripts == IF scriptsAdded THEN deepMerge(packageJson, qualityValues)
                           ELSE packageJson
           added == IF entry = "init"
                      THEN addDevDependencies(getProjectTypeConfig(projectType).dependencies)
                      ELSE << >>
       IN /\ fault = "step" => ~earlier
          /\ steps' = IF earlier THEN steps ELSE steps \o stepsAfterConfig(failing)
          /\ packageJson' = npmInstalled(afterScripts, packagesOf(added))
          /\ commands' = commands \o Ran(added, TRUE)
          /\ outcome' =
               [setupQualitySystem |-> IF failed # "none" THEN "false" ELSE "true",
                setup |-> "true",
                logSuccess |-> TRUE,
                failedStep |-> failed]
  /\ pc' = "idle"
  /\ UNCHANGED << loadVars, tplVars, callVars, fsVars, idx, result, log, reached,
                  values, modified, packageJsonBefore >>

\* Mutant: createProjectStructure is called before createHuskyHooks.
nextPhaseStructureFirst(phase) ==
  CASE phase = "config"    -> "structure"
    [] phase = "structure" -> "husky"
    [] phase = "hooks"     -> "samples"
    [] OTHER               -> "return"

\* The sequence of createConfigFiles: the loop over STANDARD_CONFIG_FILES,
\* then createHuskyHooks, createProjectStructure, createSampleTestFiles.
nextPhase(phase) ==
  CASE phase = "config"    -> "husky"
    [] phase = "hooks"     -> "structure"
    [] phase = "structure" -> "samples"
    [] OTHER               -> "return"

\* Mutant: the error of one artifact's write is not caught.
rethrowArtifactError(r) == "rejected"

\* The catch block around one artifact's write (and chmod): the error is
\* logged and the call goes on with its result r unchanged.
catchArtifactError(r) == r

\* Where a call goes once createConfigFiles has returned or thrown.
AfterConfig == IF entry = "createConfigFiles" THEN "idle" ELSE "rest"

\* fs.writeFile(path, content) that succeeds.
WriteFile(path, content) ==
  /\ fsContent' = [fsContent EXCEPT ![path] = content]
  /\ fsMode' = IF fsContent[path] = NoFile
                 THEN [fsMode EXCEPT ![path] = DefaultFileMode] ELSE fsMode

\* ------------------------------------------------------------------ steps
\* One iteration of the loop over STANDARD_CONFIG_FILES: createConfigFile.
\* fault = "write": fs.writeFile throws.
createConfigFile(fault) ==
  /\ pc = "config"
  /\ LET e == STANDARD_CONFIG_FILES[idx]
         exists == fileExists(e.filename)
         templateContent == templates[e.templateName]
     IN /\ reached' = IF exists THEN reached \cup {e.filename} ELSE reached
        /\ IF skipExisting(exists, force)
             THEN /\ fault = "none"
                  /\ log' = Append(log, Ev("skip", e.filename, TRUE))
                            \o reportSkip(e.filename)
                  /\ UNCHANGED << fsContent, fsMode >>
           ELSE IF IsFalsy(templateContent)
             THEN /\ fault = "none"
                  /\ log' = Append(log, Ev("warn", e.filename, TRUE))
                  /\ UNCHANGED << fsContent, fsMode >>
           ELSE IF fault = "none"
             THEN /\ WriteFile(e.filename,
                       processTemplate(templateContent, templateVariables(projectType)))
                  /\ log' = Append(log, Ev("write", e.filename, TRUE))
           ELSE /\ fault = "write"
                /\ log' = log \o << Ev("write", e.filename, FALSE),
                                    Ev("error", e.filename, TRUE) >>
                /\ UNCHANGED << fsContent, fsMode >>
  /\ result' = IF fault = "none" THEN result ELSE catchArtifactError(result)
  /\ IF result' = "rejected"
       THEN pc' = AfterConfig /\ idx' = 1
     ELSE IF idx < Len(STANDARD_CONFIG_FILES)
       THEN pc' = "config" /\ idx' = idx + 1
       ELSE pc' = nextPhase("config") /\ idx' = 1
  /\ UNCHANGED << loadVars, pkgVars, tplVars, callVars, outcome, dirs >>

\* createHuskyHooks up to its loop: createDirIfNotExists('.husky'), outside any
\* try block.  fault = "mkdir": fs.mkdir throws and the exception leaves
\* createHuskyHooks and createConfigFiles.
createHuskyDir(fault) ==
  /\ pc = "husky"
  /\ IF fault = "none"
       THEN /\ dirs' = dirs \cup WithParents(".husky")
            /\ log' = Append(log, Ev("mkdir", ".husky", TRUE))
            /\ pc' = "hooks"
            /\ result' = result
       ELSE /\ fault = "mkdir"
            /\ dirs' = dirs
            /\ log' = Append(log, Ev("mkdir", ".husky", FALSE))
            /\ pc' = AfterConfig
            /\ result' = "rejected"
  /\ idx' = 1
  /\ UNCHANGED << loadVars, pkgVars, tplVars, callVars, outcome, fsContent, fsMode, reached >>

\* One iteration of the loop over hooks in createHuskyHooks.
\* fault = "write": fs.writeFile throws; fault = "chmod": fs.chmod throws.
createHuskyHook(fault) ==
  /\ pc = "hooks"
  /\ LET h == hooks[idx]
         templateContent == templates[h.template]
     IN /\ reached' = IF fsContent[h.filePath] # NoFile
                        THEN reached \cup {h.filePath} ELSE reached
        /\ IF IsFalsy(templateContent)
             THEN /\ fault = "none"
                  /\ log' = Append(log, Ev("warn", h.filePath, TRUE))
                  /\ UNCHANGED << fsContent, fsMode >>
           ELSE IF skipExisting(fileExists(h.filePath), force)
             THEN /\ fault = "none"
                  /\ log' = Append(log, Ev("skip", h.filePath, TRUE))
                            \o reportSkip(h.filePath)
                  /\ UNCHANGED << fsContent, fsMode >>
           ELSE IF fault = "none"
             THEN /\ fsContent' = [fsContent EXCEPT ![h.filePath] = templateContent]
                  /\ fsMode' = [fsMode EXCEPT ![h.filePath] = ExecutableMode]
                  /\ log' = log \o << Ev("write", h.filePath, TRUE),
                                      Ev("chmod", h.filePath, TRUE) >>
           ELSE IF fault = "chmod"
             THEN /\ WriteFile(h.filePath, templateContent)
                  /\ log' = log \o << Ev("write", h.filePath, TRUE),
                                      Ev("chmod", h.filePath, FALSE),
                                      Ev("error", h.filePath, TRUE) >>
           ELSE /\ fault = "write"
                /\ log' = log \o << Ev("write", h.filePath, FALSE),
                                    Ev("error", h.filePath, TRUE) >>
                /\ UNCHANGED << fsContent, fsMode >>
  /\ result' = IF fault = "none" THEN result ELSE catchArtifactError(result)
  /\ IF result' = "rejected"
       THEN pc' = AfterConfig /\ idx' = 1
     ELSE IF idx < Len(hooks)
       THEN pc' = "hooks" /\ idx' = idx + 1
       ELSE pc' = nextPhase("hooks") /\ idx' = 1
  /\ UNCHANGED << loadVars, pkgVars, tplVars, callVars, outcome, dirs >>

\* One iteration of the loop over the declared directories in
\* createProjectStructure.  fault = "mkdir": createDirIfNotExists throws and
\* the loop's catch logs the error.
createProjectDirectory(fault) ==
  /\ pc = "structure"
  /\ LET dir == getProjectDirectories(projectType)[idx]
     IN IF getProjectDirectories(projectType) = UndefinedDirectories
          THEN \* `for (const dir of directories)`: undefined is not iterable
               /\ fault = "none"
               /\ dirs' = dirs
               /\ log' = Append(log, Ev("throw", "TypeError", TRUE))
               /\ result' = "rejected"
               /\ pc' = AfterConfig /\ idx' = 1
        ELSE /\ IF fault = "none"
                  THEN /\ dirs' = dirs \cup WithParents(dir)
                       /\ log' = log \o << Ev("existed", dir, dir \in dirs),
                                             Ev("mkdir", dir, TRUE) >>
                                      \o reportCreated(dir,
                                            createDirIfNotExists(mkdirRecursive(dir \in dirs)))
                  ELSE /\ fault = "mkdir"
                       /\ dirs' = dirs
                       /\ log' = log \o << Ev("mkdir", dir, FALSE),
                                           Ev("error", dir, TRUE) >>
             /\ result' = result
             /\ IF idx < Len(getProjectDirectories(projectType))
                  THEN pc' = "structure" /\ idx' = idx + 1
                  ELSE pc' = nextPhase("structure") /\ idx' = 1
  /\ UNCHANGED << loadVars, pkgVars, tplVars, callVars, outcome, fsContent, fsMode, reached >>

\* One iteration of the loop over sampleFiles in createSampleTestFiles.
\* fault = "mkdir": createDirIfNotExists(dirname(filePath)), outside the try
\* block, throws; fault = "write": fs.writeFile throws.
createSampleTestFile(fault) ==
  /\ pc = "samples"
  /\ LET s == sampleFiles(projectType)[idx]
         exists == fileExists(s.path)
         templateContent == IF IsFalsy(templates[s.template])
                              THEN templates[s.fallback] ELSE templates[s.template]
         last == idx = Len(sampleFiles(projectType))
     IN IF fault = "mkdir"
          THEN /\ log' = Append(log, Ev("mkdir", s.dir, FALSE))
               /\ pc' = AfterConfig
               /\ idx' = 1
               /\ result' = "rejected"
               /\ UNCHANGED << fsContent, fsMode, dirs, reached >>
          ELSE /\ dirs' = dirs \cup WithParents(s.dir)
               /\ reached' = IF exists THEN reached \cup {s.path} ELSE reached
               /\ IF skipExisting(exists, force)
                    THEN /\ fault = "none"
                         /\ log' = log \o << Ev("mkdir", s.dir, TRUE),
                                             Ev("skip", s.path, TRUE) >>
                                       \o reportSkip(s.path)
                         /\ UNCHANGED << fsContent, fsMode >>
                  ELSE IF IsFalsy(templateContent)
                    THEN /\ fault = "none"
                         /\ log' = log \o << Ev("mkdir", s.dir, TRUE),
                                             Ev("warn", s.path, TRUE) >>
                         /\ UNCHANGED << fsContent, fsMode >>
                  ELSE IF fault = "none"
                    THEN /\ WriteFile(s.path, templateContent)
                         /\ log' = log \o << Ev("mkdir", s.dir, TRUE),
                                             Ev("write", s.path, TRUE) >>
                  ELSE /\ fault = "write"
                       /\ log' = log \o << Ev("mkdir", s.dir, TRUE),
                                           Ev("write", s.path, FALSE),
                                           Ev("error", s.path, TRUE) >>
                       /\ UNCHANGED << fsContent, fsMode >>
               /\ IF fault = "write" /\ catchArtifactError(result) = "rejected"
                    THEN pc' = AfterConfig /\ idx' = 1 /\ result' = "rejected"
                  ELSE IF last
                    THEN pc' = AfterConfig /\ idx' = 1 /\ result' = "true"
                    ELSE pc' = "samples" /\ idx' = idx + 1 /\ result' = result
  /\ UNCHANGED << loadVars, pkgVars, tplVars, callVars, outcome >>

\* ------------------------------------------------------------------ specifications
Healthy(A) == A /\ UNCHANGED faults
Failing(A) == faults < MaxFaults /\ A /\ faults' = faults + 1

Next ==
  \/ \E f \in BOOLEAN : createConfigFiles(f)
  \/ \E f \in BOOLEAN : setup(f)
  \/ init
  \/ Healthy(createConfigFile("none"))
  \/ Healthy(createHuskyDir("none"))
  \/ Healthy(createHuskyHook("none"))
  \/ Healthy(createProjectDirectory("none"))
  \/ Healthy(createSampleTestFile("none"))
  \/ Healthy(setupRest("none"))

\* The program in a working directory where no I/O operation fails.
Spec == Init /\ [][Next]_vars

NextFault ==
  \/ Next
  \/ Failing(createConfigFile("write"))
  \/ Failing(createHuskyDir("mkdir"))
  \/ \E fault \in {"write", "chmod"} : Failing(createHuskyHook(fault))
  \/ Failing(createProjectDirectory("mkdir"))
  \/ \E fault \in {"mkdir", "write"} : Failing(createSampleTestFile(fault))
  \/ Failing(setupRest("step"))

\* A fresh project directory and a complete common template directory.
InitFault ==
  /\ InitProject(ProjectTypeIds, 0)
  /\ InitTemplate({<< >>}, {<< >>})
  /\ InitPackageJson({InstalledPackageJson}, {EmptyDoc})

\* The program in a working directory where up to MaxFaults writes, chmods
\* or mkdirs fail.
SpecFault == InitFault /\ [][NextFault]_vars

\* The template keys the artifact written to path p can be built from.
KeysFor(pt, p) ==
  { e.templateName : e \in { x \in Range(STANDARD_CONFIG_FILES) : x.filename = p } }
    \cup { h.template : h \in { x \in Range(hooks) : x.filePath = p } }
    \cup UNION { {x.template, x.fallback} :
                   x \in { y \in Range(sampleFiles(pt)) : y.path = p } }

\* No template for one artifact, and at most one file that already exists.
MissingAndExisting(pt) ==
  { ({"missing"} \X KeysFor(pt, p)) \cup ex :
      p \in Paths, ex \in SubsetsUpTo({"existing"} \X Paths, 1) }

InitMissing ==
  /\ InitWorld(ProjectTypeIds, {"ok"},
               [pt \in ProjectTypeIds |-> MissingAndExisting(pt)])
  /\ InitTemplate({<< >>}, {<< >>})
  /\ InitPackageJson({InstalledPackageJson}, {EmptyDoc})

\* The program in a project whose template set lacks the entry of one
\* artifact.
SpecMissing == InitMissing /\ [][Next]_vars

\* At most one template of the specific directory that overrides a common
\* one.
Overriding(pt) == SubsetsUpTo({"overriding"} \X KeysOf(pt), 1)

\* Any project type id, known or not, and template directories that exist,
\* are missing, cannot be read, or hold a file that cannot be read.
InitLoad ==
  /\ InitWorld(ProjectTypeIds \cup UnknownIds,
               {"ok", "missing", "unreadable", "partial"},
               [pt \in ProjectTypeIds \cup UnknownIds |-> Overriding(pt)])
  /\ InitTemplate({<< >>}, {<< >>})
  /\ InitPackageJson({EmptyDoc}, {EmptyDoc})

NextLoad ==
  \/ loadTemplatesCall
  \/ \E provided, f \in BOOLEAN : createConfigFilesGiven(provided, f)
  \/ Healthy(createConfigFile("none"))
  \/ Healthy(createHuskyDir("none"))
  \/ Healthy(createHuskyHook("none"))
  \/ Healthy(createProjectDirectory("none"))
  \/ Healthy(createSampleTestFile("none"))

\* loadTemplates and createConfigFiles called with any project type id.
SpecLoad == InitLoad /\ [][NextLoad]_vars

\* The sequences over S of length at most n.
RECURSIVE SeqsUpTo(_, _)
SeqsUpTo(S, n) ==
  IF n = 0 THEN {<< >>}
  ELSE LET shorter == SeqsUpTo(S, n - 1)
       IN shorter \cup { Append(t, x) : t \in shorter, x \in S }

\* Pieces of template text: literal text and placeholders, written with and
\* without whitespace, for names that are variables and one that is not.
TemplateTokens ==
  { Lit("a"), Ph("name"), PhWs("name"), Ph("year"), PhWs("other") }

\* Values of a variable: plain text, text with the characters $$ or $&, and
\* text that is itself a placeholder.
VariableValues ==
  { << Lit("John") >>, << Lit("$$") >>, << Lit("a"), Lit("$&") >>, << Ph("year") >> }

\* Object.entries(variables) for objects over the keys name and year.
VariableLists ==
  {<< >>}
    \cup { << [key |-> k, value |-> v] >> : k \in {"name", "year"}, v \in VariableValues }
    \cup { << [key |-> k[1], value |-> v], [key |-> k[2], value |-> w] >> :
             k \in { << "name", "year" >>, << "year", "name" >> },
             v \in VariableValues, w \in VariableValues }

\* processTemplate(template, variables) called by itself.
processTemplateCall ==
  /\ pc = "idle"
  /\ processed = NotProcessed
  /\ processed' = processTemplate(template, variables)
  /\ UNCHANGED << loadVars, pkgVars, callVars, fsVars, template, variables, pc,
                  idx, result, outcome, log, reached, faults >>

InitTemplates ==
  /\ InitProject({"node"}, 0)
  /\ InitTemplate(SeqsUpTo(TemplateTokens, MaxTemplateLen), VariableLists)
  /\ InitPackageJson({EmptyDoc}, {EmptyDoc})

NextTemplate == processTemplateCall

\* processTemplate on every template and variables object of the bounds.
SpecTemplate == InitTemplates /\ [][NextTemplate]_vars

\* modifyPackageJson(vals) called through entry point e: package.json is
\* read and parsed, vals is merged in and the result is written; a failure
\* to read or parse is logged and rethrown before anything is written.
modifyPackageJsonFrom(e, vals) ==
  LET parsed == JSONparse(packageJson)
  IN /\ pc = "idle"
     /\ runs < MaxRuns
     /\ entry' = e
     /\ runs' = runs + 1
     /\ prev' = [ran |-> runs > 0, force |-> force, result |-> result]
     /\ values' = vals
     /\ packageJsonBefore' = packageJson
     /\ packageJson' = IF parsed.threw THEN packageJson
                       ELSE deepMerge(parsed.value, vals)
     /\ modified' = ~parsed.threw
     /\ log' = IF parsed.threw
                 THEN << Ev("readFile", "package.json", FALSE),
                         Ev("logError", "package.json", TRUE),
                         Ev("throw", e, TRUE) >>
                 ELSE << Ev("readFile", "package.json", TRUE),
                         Ev("writeFile", "package.json", TRUE),
                         Ev("return", e, TRUE) >>
     /\ UNCHANGED << loadVars, tplVars, fsVars, commands, steps, templates,
                     loadResult, projectType, force, verbose, skipInstall, before,
                     beforeMode, pc, idx, result, outcome, reached, faults >>

\* modifyPackageJson(values)
modifyPackageJson == modifyPackageJsonFrom("modifyPackageJson", values)

\* addScriptsToPackageJson(options): `await modifyPackageJson(values)` with
\* the quality scripts; options holds no force.
addScriptsToPackageJson ==
  modifyPackageJsonFrom("addScriptsToPackageJson", qualityValues)

InitMerge ==
  /\ InitProject({"node"}, 0)
  /\ InitTemplate({<< >>}, {<< >>})
  /\ InitPackageJson(JsonDocs \cup {MissingPackageJson, InvalidPackageJson}, JsonDocs)

NextMerge == modifyPackageJson \/ addScriptsToPackageJson

\* The package.json update on every pair of a document and a values object.
SpecMerge == InitMerge /\ [][NextMerge]_vars

\* installDependencies({ projectType }) called directly; fault = "install"
\* makes npm fail, which installDependencies logs and rethrows.
installDependenciesCall(fault) ==
  LET cmds == installCommands(packageJson, projectType)
  IN /\ pc = "idle"
     /\ runs < MaxRuns
     /\ fault = "install" => cmds # << >>
     /\ entry' = "installDependencies"
     /\ runs' = runs + 1
     /\ prev' = [ran |-> runs > 0, force |-> force, result |-> result]
     /\ commands' = Ran(cmds, fault # "install")
     /\ packageJsonBefore' = packageJson
     /\ packageJson' = IF fault = "install" THEN packageJson
                       ELSE npmInstalled(packageJson, packagesOf(cmds))
     /\ log' = << Ev(IF fault = "install" THEN "throw" ELSE "return",
                     "installDependencies", TRUE) >>
     /\ UNCHANGED << loadVars, tplVars, fsVars, values, modified, steps, templates,
                     loadResult, projectType, force, verbose, skipInstall, before,
                     beforeMode, pc, idx, result, outcome, reached, faults >>

\* The names npm knows the dependencies of the registry by.
RegistryPackageNames == { npmPackageName(d) : d \in AllDependencies }

\* package.json files that list few of the registry's packages, all but few
\* of them, or the unscoped ones, as dependencies or as devDependencies;
\* and package.json missing or broken.
InstallDocs ==
  LET few == SubsetsUpTo(RegistryPackageNames, MaxListed)
      listed == few \cup { RegistryPackageNames \ s : s \in few }
                    \cup { RegistryPackageNames \ Range(ScopedPackageNames) }
  IN { WithDevDependencies(names) : names \in listed }
       \cup { Obj("dependencies" :> WithDevDependencies(names).fields["devDependencies"]) :
                names \in listed }
       \cup { MissingPackageJson, InvalidPackageJson }

InitInstall ==
  /\ InitProject(ProjectTypeIds, 0)
  /\ InitTemplate({<< >>}, {<< >>})
  /\ InitPackageJson(InstallDocs, {EmptyDoc})

NextInstall == \E fault \in {"none", "install"} : installDependenciesCall(fault)

\* installDependencies on every package.json of InstallDocs.
SpecInstall == InitInstall /\ [][NextInstall]_vars

\* The sets of compatibility issues the installed versions show: none, the
\* first, the second and third.
DetectedIssues == { {}, {1}, {2, 3} }

\* package.json of a new project, of one with the unscoped packages
\* installed, and of one with everything installed.
SetupDocs ==
  { EmptyDoc,
    WithDevDependencies(RegistryPackageNames \ Range(ScopedPackageNames)),
    InstalledPackageJson }

InitSetup ==
  /\ InitProject(ProjectTypeIds, 0)
  /\ InitTemplate({<< >>}, {<< >>})
  /\ InitPackageJson(SetupDocs, {EmptyDoc})

NextSetup ==
  \/ \E skip, update \in BOOLEAN : \E detected \in DetectedIssues :
       Healthy(setupWith(FALSE, skip, detected, update, "none"))
  \/ \E skip, update \in BOOLEAN : \E detected \in DetectedIssues :
       \E fault \in {"install", "prompt", "update"} :
         Failing(setupWith(FALSE, skip, detected, update, fault))
  \/ Healthy(createConfigFile("none"))
  \/ Healthy(createHuskyDir("none"))
  \/ Failing(createHuskyDir("mkdir"))
  \/ Healthy(createHuskyHook("none"))
  \/ Healthy(createProjectDirectory("none"))
  \/ Healthy(createSampleTestFile("none"))
  \/ Healthy(setupRest("none"))
  \/ Failing(setupRest("step"))

\* setup with and without skipInstall, on package.json files of SetupDocs,
\* where up to MaxFaults steps of setupQualitySystem fail.
SpecSetup == InitSetup /\ [][NextSetup]_vars

\* ------------------------------------------------------------------ claims
Finished == pc \in {"idle", "rest"} /\ runs > 0

\* Some event of the current call on path p has its op in ops.
IssuedTo(p, ops) == \E j \in DOMAIN log : log[j].path = p /\ log[j].op \in ops
Succeeded(p, op) ==
  \E j \in DOMAIN log : log[j].path = p /\ log[j].op = op /\ log[j].ok
\* The call handled artifact p: skipped it, found no template, or wrote it.
Attempted(p) == IssuedTo(p, {"skip", "warn", "write"})

\* The entry of the merged template set that is mapped to output path p.
EntryFor(p) ==
  IF p \in ConfigPaths
    THEN templates[(CHOOSE e \in Range(STANDARD_CONFIG_FILES) : e.filename = p).templateName]
  ELSE IF p \in HookPaths
    THEN templates[(CHOOSE h \in Range(hooks) : h.filePath = p).template]
  ELSE LET s == CHOOSE x \in Range(sampleFiles(projectType)) : x.path = p
       IN IF templates[s.template] # Undefined
            THEN templates[s.template] ELSE templates[s.fallback]

\* C1 Non-destructive default: a managed path that exists when the run
\* reaches it, with force false, gets no write and no chmod, and keeps the
\* content and permission bits it had before the run.
C1_NonDestructiveDefault ==
  \A p \in reached :
    ~force => /\ ~IssuedTo(p, {"write", "chmod"})
              /\ fsContent[p] = before[p]
              /\ fsMode[p] = beforeMode[p]

C1_Witness ==
  /\ Finished /\ ~force /\ result = "true"
  /\ \E p \in reached : fsContent[p] = UserContent /\ EntryFor(p) # Undefined
  /\ \E q \in Paths : Succeeded(q, "write")

ThrowingMkdirFailed ==
  \E j \in DOMAIN log :
    log[j].op = "mkdir" /\ ~log[j].ok /\ log[j].phase \in {"husky", "samples"}

\* C3 Per-artifact failure isolation: a failing write or chmod never makes
\* createConfigFiles reject, and every artifact of the call is still
\* attempted.
C3_FailureIsolation ==
  /\ result = "rejected" => ThrowingMkdirFailed
  /\ (Finished /\ ~ThrowingMkdirFailed) =>
       result = "true" /\ \A p \in Paths : Attempted(p)

C3_Witness ==
  /\ Finished /\ result = "true"
  /\ \A p \in Paths : Attempted(p)
  /\ \E i, j \in DOMAIN log :
       /\ i < j
       /\ log[i].op \in {"write", "chmod"} /\ ~log[i].ok
       /\ log[j].op = "write" /\ log[j].ok

\* C4 Forced overwrite: a target that exists when the run reaches it, with
\* force true and an entry in the merged template set, is written and holds
\* that entry's content (verbatim or with its placeholders substituted).
C4_ForcedOverwrite ==
  \A p \in reached :
    (force /\ ~IsFalsy(EntryFor(p))) =>
      /\ Succeeded(p, "write")
      /\ fsContent[p] \in
           { EntryFor(p), processTemplate(EntryFor(p), templateVariables(projectType)) }

C4_Witness ==
  /\ Finished /\ force
  /\ \E p \in reached :
       /\ before[p] = UserContent
       /\ fsContent[p] # UserContent
       /\ Succeeded(p, "write")

\* C5 Idempotent re-run: a call with force false that follows a call with
\* force false writes no file, changes no permission bits and does not
\* reject.
C5_IdempotentRerun ==
  (prev.ran /\ ~prev.force /\ ~force) =>
    /\ \A j \in DOMAIN log : log[j].op \notin {"write", "chmod"}
    /\ fsContent = before
    /\ fsMode = beforeMode
    /\ result # "rejected"

C5_Witness ==
  /\ Finished /\ result = "true"
  /\ prev.ran /\ ~prev.force /\ ~force /\ prev.result = "true"
  /\ \E p \in Paths : fsContent[p] \notin {NoFile, UserContent}
  /\ \A p \in Paths : IssuedTo(p, {"skip", "warn"})

\* C6 Hook executability: a hook script the run wrote without reporting a
\* failure for it has mode rwxr-xr-x (0o755); no chmod is issued to a
\* configuration file or sample test file, whose permission bits stay what
\* they were (or what fs.writeFile gives a new file).
C6_HookExecutability ==
  /\ \A p \in HookPaths :
       (Succeeded(p, "write") /\ ~IssuedTo(p, {"error"})) => fsMode[p] = "rwxr-xr-x"
  /\ \A p \in Paths \ HookPaths :
       /\ ~IssuedTo(p, {"chmod"})
       /\ fsMode[p] = IF before[p] = NoFile THEN DefaultFileMode ELSE beforeMode[p]

C6_Witness ==
  /\ Finished /\ result = "true"
  /\ \A p \in HookPaths : Succeeded(p, "write") /\ fsMode[p] = "rwxr-xr-x"
  /\ \E p \in Paths \ HookPaths : Succeeded(p, "write") /\ fsMode[p] # "rwxr-xr-x"

\* Every event of the log is ranked no higher than the events after it.
Monotone(rank(_)) ==
  \A i, j \in DOMAIN log : i < j => rank(log[i].phase) <= rank(log[j].phase)

\* Every element of todo was handled (ops) in step `phase` before the first
\* event of a step in `later`.
AllBefore(todo, ops, phase, later) ==
  \A j \in DOMAIN log :
    log[j].phase \in later =>
      \A t \in todo :
        \E i \in 1..(j - 1) :
          log[i].path = t /\ log[i].op \in ops /\ log[i].phase = phase

DeclaredDirectories == Range(getProjectDirectories(projectType))

RankClaimed(phase) ==
  CASE phase = "structure" -> 1
    [] phase = "config"    -> 2
    [] phase = "husky"     -> 3
    [] phase = "hooks"     -> 3
    [] OTHER               -> 4

RankOfCode(phase) ==
  CASE phase = "config"    -> 1
    [] phase = "husky"     -> 2
    [] phase = "hooks"     -> 2
    [] phase = "structure" -> 3
    [] OTHER               -> 4

\* r is t with s merged into it: a key of s whose value is an object in both
\* is merged key by key, any other key of s holds the value of s, and the keys
\* only t has hold the value of t.
RECURSIVE IsMergeOf(_, _, _)
IsMergeOf(r, t, s) ==
  /\ r.kind = "object"
  /\ DOMAIN r.fields = DOMAIN t.fields \cup DOMAIN s.fields
  /\ \A k \in DOMAIN r.fields :
       IF k \notin DOMAIN s.fields
         THEN r.fields[k] = t.fields[k]
       ELSE IF /\ s.fields[k].kind = "object"
               /\ k \in DOMAIN t.fields
               /\ t.fields[k].kind = "object"
         THEN IsMergeOf(r.fields[k], t.fields[k], s.fields[k])
       ELSE r.fields[k] = s.fields[k]

\* C7 Deep-merge vs replace: after modifyPackageJson, package.json is the
\* old document with the values object merged in: objects merge key by key,
\* arrays and scalars of the values object replace the old value, keys only
\* the old document has are kept.
C7_DeepMergeVsReplace ==
  modified => IsMergeOf(packageJson, packageJsonBefore, values)

\* The example of the claim: scripts are merged, keywords are replaced.
C7_Witness ==
  /\ modified
  /\ packageJsonBefore =
       Obj([k \in {"scripts", "keywords"} |->
              IF k = "scripts" THEN Obj([i \in {"start"} |-> Str("y")])
              ELSE Arr(<< "a" >>)])
  /\ values =
       Obj([k \in {"scripts", "keywords"} |->
              IF k = "scripts" THEN Obj([i \in {"lint"} |-> Str("x")])
              ELSE Arr(<< "b" >>)])
  /\ packageJson =
       Obj([k \in {"scripts", "keywords"} |->
              IF k = "scripts"
                THEN Obj([i \in {"start", "lint"} |->
                            IF i = "start" THEN Str("y") ELSE Str("x")])
              ELSE Arr(<< "b" >>)])

\* C8 as stated: the steps of one run happen in the order directories,
\* configuration files, hook scripts, sample test files, and every declared
\* project directory is created before the first configuration file is
\* handled.
C8_Original ==
  /\ Monotone(RankClaimed)
  /\ AllBefore(DeclaredDirectories, {"mkdir"}, "structure",
               {"config", "husky", "hooks", "samples"})

\* C8 Materialization order, amended: configuration files, then .husky and
\* the hook scripts, then the declared project directories, then the sample
\* test files; each group is handled completely before the next one starts.
C8_MaterializationOrder ==
  /\ Monotone(RankOfCode)
  /\ AllBefore(ConfigPaths, {"skip", "warn", "write"}, "config",
               {"husky", "hooks", "structure", "samples"})
  /\ AllBefore(HookPaths, {"skip", "warn", "write"}, "hooks",
               {"structure", "samples"})
  /\ AllBefore(DeclaredDirectories, {"mkdir"}, "structure", {"samples"})

C8_Witness ==
  /\ Finished /\ result = "true"
  /\ \A ph \in {"config", "husky", "hooks", "structure", "samples"} :
       \E j \in DOMAIN log : log[j].phase = ph
  /\ \E p \in SamplePaths : Succeeded(p, "write")

\* The directory an artifact is written into ("." is the project root).
DirOf(p) ==
  IF p \in HookPaths THEN ".husky"
  ELSE IF p \in SamplePaths
    THEN (CHOOSE s \in Range(sampleFiles(projectType)) : s.path = p).dir
  ELSE "."

FailedDirs == { log[j].path : j \in { i \in DOMAIN log : log[i].op = "mkdir" /\ ~log[i].ok } }

\* C9 Directory-create failure isolation: when the creation of a directory
\* fails, createConfigFiles does not reject and still attempts every
\* artifact that is destined for another directory.
C9_Original ==
  (Finished /\ FailedDirs # {}) =>
    /\ result # "rejected"
    /\ \A p \in Paths : DirOf(p) \notin FailedDirs => Attempted(p)

\* C10 No overwrite without explicit consent: a file that existed before the
\* call is written only when the caller passed force; init has no force
\* option, so a call made through init writes no file that existed before.
C10_Original ==
  \A p \in Paths :
    (before[p] # NoFile /\ IssuedTo(p, {"write"})) => (force /\ entry # "init")

\* The current call reported the failure of an artifact's write or chmod.
SomeArtifactFailed == \E j \in DOMAIN log : log[j].op = "error"

\* C11 setup returns true only if the setup succeeded: when
\* setupQualitySystem returned false, setup returns false and does not log
\* its success message.
C11_Original ==
  outcome.setupQualitySystem = "false" =>
    outcome.setup = "false" /\ ~outcome.logSuccess

\* C12 Completed with warnings: a call in which no exception left
\* createConfigFiles but the write or chmod of some artifact failed does not
\* return what a call without any failure returns (true).
C12_Original ==
  (Finished /\ SomeArtifactFailed /\ result # "rejected") => result # "true"

\* C13 Every skip and every failure is reported individually: each skipped
\* artifact has its own message to the user and each failed artifact has its
\* own error message, whatever the verbose option.
C13_Original ==
  \A j \in DOMAIN log :
    /\ log[j].op = "skip" => IssuedTo(log[j].path, {"logInfo"})
    /\ (log[j].op \in {"write", "chmod"} /\ ~log[j].ok)
         => IssuedTo(log[j].path, {"error"})

\* C14 as stated: an artifact the merged template set has no entry for is
\* omitted with a warning, without a write and without an exception.
C14_Original ==
  \A p \in Paths :
    (EntryFor(p) = Undefined /\ Attempted(p)) =>
      /\ IssuedTo(p, {"warn"})
      /\ ~IssuedTo(p, {"write", "chmod"})
      /\ result # "rejected"

\* The run reached p while it existed, with force false, and p is not a hook:
\* createConfigFile and createSampleTestFiles test this before they look the
\* template up.
SkippedBeforeLookup(p) == p \notin HookPaths /\ p \in reached /\ ~force

\* C14 Missing optional template tolerance, amended: an artifact the merged
\* template set has no entry for gets no write and raises no exception; it is
\* omitted with a warning, unless it is a configuration file or sample test
\* whose target exists with force false, which is skipped without a warning;
\* every other artifact is still written or skipped.
C14_MissingTemplateTolerance ==
  /\ \A p \in Paths :
       EntryFor(p) = Undefined =>
         /\ ~IssuedTo(p, {"write", "chmod"})
         /\ fsContent[p] = before[p]
         /\ Attempted(p) => (IssuedTo(p, {"warn"}) <=> ~SkippedBeforeLookup(p))
  /\ result # "rejected"
  /\ (Finished /\ entry # "none") =>
       \A q \in Paths :
         EntryFor(q) # Undefined =>
           IF before[q] = NoFile \/ force
             THEN Succeeded(q, "write") ELSE IssuedTo(q, {"skip"})

C14_Witness ==
  /\ Finished /\ result = "true"
  /\ \E p \in Paths :
       /\ EntryFor(p) = Undefined
       /\ IssuedTo(p, {"warn"})
       /\ fsContent[p] = NoFile
  /\ \E q \in Paths : Succeeded(q, "write")

\* The output paths the code builds from template key k.
OutputsOf(k) == { p \in Paths : k \in KeysFor(projectType, p) }

\* C15 Every merged entry is mapped to an output: after a run, every key of
\* the merged template set has an output path, and the file at that path was
\* written when it did not exist before the run.
C15_Original ==
  (Finished /\ result = "true") =>
    \A k \in TemplateKeys :
      templates[k] # Undefined =>
        \E p \in OutputsOf(k) : before[p] = NoFile => Succeeded(p, "write")

\* The value of variable name in the list vs (name is one of its keys).
ValueOf(vs, name) == (CHOOSE j \in DOMAIN vs : vs[j].key = name)

\* The text the claim describes: every placeholder whose name is a key of
\* vs replaced by the value of that variable, every other token kept.
RECURSIVE Substituted(_, _)
Substituted(text, vs) ==
  IF text = << >> THEN << >>
  ELSE (IF /\ Head(text).kind \in {"ph", "phws"}
           /\ \E j \in DOMAIN vs : vs[j].key = Head(text).text
          THEN vs[ValueOf(vs, Head(text).text)].value
          ELSE << Head(text) >>)
       \o Substituted(Tail(text), vs)

\* C16 Variable substitution: processTemplate(template, variables) is the
\* template with every {{ name }} whose name is a key of variables replaced
\* by the string value of variables[name], and every other placeholder left
\* verbatim.
C16_Original ==
  processed # NotProcessed => processed = Substituted(template, variables)

\* C17 Variable substitution is run for every merged entry: every file the
\* call wrote holds its template entry with the placeholders substituted
\* from the variables of the run.
C17_Original ==
  \A p \in Paths :
    Succeeded(p, "write") =>
      fsContent[p] = processTemplate(EntryFor(p), templateVariables(projectType))

\* No template directory was read and no file was written or chmod'ed.
NothingReadOrWritten ==
  /\ \A j \in DOMAIN log :
       log[j].op \notin {"access", "readdir", "write", "chmod", "mkdir"}
  /\ fsContent = before

\* C18 Unknown project type is rejected up front: for an id other than node,
\* react and next, loadTemplates fails with 'Invalid project type' before
\* it reads a template directory, and createConfigFiles (called with
\* templates) fails with 'Invalid project type' before it writes a file.
C18_Original ==
  projectType \notin ProjectTypeIds =>
    /\ (loadResult # "none" /\ entry = "none") =>
         loadResult = "Invalid project type" /\ NothingReadOrWritten
    /\ (entry = "createConfigFiles"
          /\ ~IssuedTo("No templates provided", {"throw"})) =>
         /\ result = "rejected"
         /\ IssuedTo("Invalid project type", {"throw"})
         /\ NothingReadOrWritten

\* loadTemplates returned or threw, and nothing was called since.
Loaded == loadResult # "none" /\ entry = "none"

\* C19 Common is mandatory, specific is optional: loadTemplates of a project
\* type rejects when the common directory does not exist; when only the
\* specific directory does not exist it resolves with exactly the entries of
\* the common directory.
C19_CommonMandatorySpecificOptional ==
  (Loaded /\ projectType \in ProjectTypeIds) =>
    /\ commonState = "missing" => loadResult = "Base template directory not found"
    /\ (commonState = "ok" /\ specificState = "missing") =>
         /\ loadResult = "resolved"
         /\ \A k \in TemplateKeys : templates[k] = commonNs[k]

C19_Witness ==
  /\ Loaded /\ projectType \in ProjectTypeIds
  /\ commonState = "ok" /\ specificState = "missing"
  /\ loadResult = "resolved"
  /\ \E k \in TemplateKeys : templates[k] # Undefined /\ templates[k] = commonNs[k]
  /\ \E j \in DOMAIN log :
       log[j].op = "access" /\ log[j].path = "specific" /\ ~log[j].ok

\* C20 Registry lookup: getProjectTypeConfig(id) is the descriptor when id
\* is node, react or next, and null for every other id.
C20_Original ==
  loadResult # "none" =>
    getProjectTypeConfig(projectType) =
      IF projectType \in ProjectTypeIds THEN PROJECT_TYPES[projectType] ELSE Null

\* The call of installDependencies has returned or thrown.
Installed == entry = "installDependencies" /\ runs > 0

\* package.json lists the package under dependencies or devDependencies.
ListedIn(doc, name) ==
  /\ doc.kind = "object"
  /\ \E section \in {"dependencies", "devDependencies"} :
       /\ section \in DOMAIN doc.fields
       /\ doc.fields[section].kind = "object"
       /\ name \in DOMAIN doc.fields[section].fields

\* C21 (as stated): installDependencies installs only what is missing: no
\* package that package.json lists under dependencies or devDependencies
\* (scoped names included) is part of the npm install command, and no
\* command is run when every dependency of the project type is listed.
C21_Original ==
  Installed =>
    /\ \A j \in DOMAIN commands :
         \A d \in Range(commands[j].packages) :
           ~ListedIn(packageJsonBefore, npmPackageName(d))
    /\ (\A d \in Range(getProjectDependencies(projectType)) :
          ListedIn(packageJsonBefore, npmPackageName(d)))
         => commands = << >>

\* C22 (as stated): when setupQualitySystem runs with skipInstall = true,
\* no npm install command is executed at any point of the run.
C22_Original ==
  (entry = "setup" /\ skipInstall) =>
    \A j \in DOMAIN commands : commands[j].command # "npm install --save-dev"

\* Directory dir existed when createProjectStructure came to it.
Existed(dir) ==
  \E i \in DOMAIN log : log[i].op = "existed" /\ log[i].path = dir /\ log[i].ok

\* C23 (as stated): creating a declared directory that already exists is
\* not an error and is recorded as already existing: createDirIfNotExists
\* returns false for it, and returns true (the directory is reported as
\* created) only for a directory it actually created.
C23_Original ==
  \A j \in DOMAIN log :
    /\ (log[j].op = "created") => ~Existed(log[j].path)
    /\ (log[j].op = "mkdir" /\ log[j].phase = "structure" /\ Existed(log[j].path)) =>
         log[j].ok

\* The scripts object of a package.json document, empty when it has none.
ScriptsOf(doc) ==
  IF doc.kind = "object" /\ "scripts" \in DOMAIN doc.fields
     /\ doc.fields["scripts"].kind = "object"
    THEN doc.fields["scripts"].fields ELSE NoFields

\* C24 (as stated): every script already defined in package.json keeps its
\* value after addScriptsToPackageJson, which only adds the script names
\* that were absent.
C24_Original ==
  (entry = "addScriptsToPackageJson" /\ modified) =>
    \A name \in DOMAIN ScriptsOf(packageJsonBefore) :
      /\ name \in DOMAIN ScriptsOf(packageJson)
      /\ ScriptsOf(packageJson)[name] = ScriptsOf(packageJsonBefore)[name]

\* The commands of the current call that install dependencies (the version
\* check installs <package>@latest).
InstallStepCommands ==
  { commands[j] : j \in { k \in DOMAIN commands :
                            \A d \in Range(commands[k].packages) : npmRange(d) # "latest" } }

\* C25 (as stated): during setup for project type T the dependency list
\* that is checked and installed is the registry's list of T: only
\* dependencies of T are installed, and after a successful installation
\* package.json lists every dependency of T.
C25_Original ==
  (entry = "setup" /\ ~skipInstall /\ "install" \in Range(steps)) =>
    /\ \A c \in InstallStepCommands :
         Range(c.packages) \subseteq Range(getProjectDependencies(projectType))
    /\ outcome.failedStep # "install" =>
         \A d \in Range(getProjectDependencies(projectType)) :
           ListedIn(packageJson, npmPackageName(d))

\* The steps of setupQualitySystem in the order of the code.
StepOrder == << "install", "version", "config", "scripts", "husky", "tests" >>

\* The steps a run with the current options goes through.
StepsToRun == IF skipInstall THEN Tail(StepOrder) ELSE StepOrder

\* setup has returned.
SetupReturned == entry = "setup" /\ pc = "idle" /\ outcome.setup # "pending"

\* C26: the steps of setupQualitySystem start in the order install, version
\* check, configuration files, package.json scripts, Husky; the
\* configuration files are written only between the start of their step and
\* the start of the next one; when a step throws no later step is started
\* and setupQualitySystem returns false, never rejecting.
C26_FailFastOrdered ==
  entry = "setup" =>
    /\ Len(steps) <= Len(StepsToRun)
    /\ steps = SubSeq(StepsToRun, 1, Len(steps))
    /\ "config" \notin Range(steps) => log = << >> /\ fsContent = before
    /\ pc \notin {"idle", "rest"} => steps[Len(steps)] = "config"
    /\ SetupReturned =>
         /\ outcome.setupQualitySystem =
              (IF outcome.failedStep = "none" THEN "true" ELSE "false")
         /\ outcome.failedStep = "none" => steps = StepsToRun
         /\ outcome.failedStep # "none" => steps[Len(steps)] = outcome.failedStep
         /\ outcome.failedStep = "config" <=> result = "rejected"

C26_Witness ==
  /\ SetupReturned
  /\ outcome.failedStep = "scripts"
  /\ steps = << "install", "version", "config", "scripts" >>
  /\ outcome.setupQualitySystem = "false"
  /\ result = "true"

\* modifyPackageJson was called on a package.json that cannot be read or is
\* no JSON.
CalledOnBroken ==
  /\ entry \in {"modifyPackageJson", "addScriptsToPackageJson"}
  /\ packageJsonBefore.kind \in {"enoent", "invalid"}

\* C27: when package.json cannot be read or is not valid JSON,
\* modifyPackageJson rejects, writes nothing and leaves the file as it was.
C27_RejectsWithoutWrite ==
  CalledOnBroken =>
    /\ IssuedTo(entry, {"throw"})
    /\ ~IssuedTo(entry, {"return"})
    /\ ~IssuedTo("package.json", {"writeFile"})
    /\ packageJson = packageJsonBefore
    /\ ~modified

C27_Witness ==
  /\ CalledOnBroken
  /\ packageJsonBefore = InvalidPackageJson
  /\ packageJson = InvalidPackageJson
  /\ IssuedTo("modifyPackageJson", {"throw"})
  /\ values # EmptyDoc

\* C28: the map loadTemplates returns is the common entries overlaid with
\* all entries of the specific namespace, or exactly the common entries:
\* when reading the specific namespace fails, part-way included, none of
\* its entries is in the result.
C28_SpecificAllOrNothing ==
  (Loaded /\ loadResult = "resolved") =>
    IF specificState = "ok"
      THEN templates = ObjectAssign(ObjectAssign(EmptyTemplates, commonNs), specificNs)
      ELSE templates = ObjectAssign(EmptyTemplates, commonNs)

\* Reading the specific namespace failed after an entry that overrides a
\* common one was read, and the result holds the common entry.
C28_Witness ==
  /\ Loaded /\ loadResult = "resolved"
  /\ specificState = "partial"
  /\ \E k \in ReadFirst :
       /\ specificNs[k] # Undefined
       /\ commonNs[k] # specificNs[k]
       /\ templates[k] = commonNs[k]
  /\ \E k \in TemplateKeys \ ReadFirst : specificNs[k] # Undefined

\* The entries of a variables object in the opposite iteration order.
Reversed(entries) ==
  [i \in DOMAIN entries |-> entries[Len(entries) + 1 - i]]

\* The placeholders a value brought into the output were left as they are.
InsertedVerbatim ==
  \A i \in DOMAIN variables :
    (/\ template = << Ph(variables[i].key) >>
     /\ \A j \in 1..(i - 1) : variables[j].key # variables[i].key
     /\ \A t \in Range(variables[i].value) : t.kind = "ph")
      => processed = variables[i].value

\* C29 (as stated): substitution is one simultaneous pass: text inserted as
\* the value of a variable is not scanned for placeholders again, so the
\* result does not depend on the iteration order of the variables and a
\* value that contains {{year}} stays verbatim.
C29_Original ==
  processed # NotProcessed =>
    /\ processed = processTemplate(template, Reversed(variables))
    /\ InsertedVerbatim

\* C30: applying the same update twice is the same as applying it once:
\* merging the values object into a document it was already merged into
\* changes nothing, so a call of modifyPackageJson that follows a call
\* with the same values object leaves package.json as that call wrote it.
C30_MergeIdempotent ==
  modified =>
    /\ deepMerge(packageJson, values) = packageJson
    /\ (prev.ran /\ entry = "modifyPackageJson") => packageJson = packageJsonBefore

\* The second call with a values object that merges into a nested object
\* and replaces an array of the document.
C30_Witness ==
  /\ modified
  /\ prev.ran
  /\ entry = "modifyPackageJson"
  /\ packageJson = packageJsonBefore
  /\ packageJson # values
  /\ \E key \in DOMAIN values.fields :
       /\ values.fields[key].kind = "object"
       /\ DOMAIN packageJson.fields[key].fields # DOMAIN values.fields[key].fields
  /\ \E key \in DOMAIN values.fields : values.fields[key].kind = "array"

====
